---------------------------- MODULE Spec2Model ----------------------------
(***************************************************************************)
(* keras-text-helper: the vocabulary builder (vocab_builder.py) and the    *)
(* dataset filter (prep_data_for_tokenizer.py) as two sequential programs. *)
(*                                                                         *)
(* A character is a one-character string, a token or a line is a sequence  *)
(* of characters.  The datasets are written over an alphabet that holds no *)
(* comma and no double quote, so the comma translation and the quote       *)
(* repair of prep_data_for_tokenizer.py lines 57-71 leave them unchanged;  *)
(* the corpora of the vocabulary builder hold words of letters only, which *)
(* nltk.word_tokenize separates at white space.                            *)
(***************************************************************************)
EXTENDS Integers, Sequences, FiniteSets, TLC

VARIABLES
    prog,                 \* which script runs: "vocab_builder" or "prep"
    pc,                   \* position in the running script
    \* ---- prep_data_for_tokenizer ----
    source_lines,         \* source_text.split(sep='\n')
    vocab_tokens,         \* vocab_text.split()
    max_tkns,             \* maximum number of tokens per line
    lemmatized_lines,
    all_tokens_in_vocab,
    tokens_in_vocab,      \* the candidates of the line refined last
    refined_source_text,
    line_idx,             \* the i of the loop at line 149
    run,                  \* 1: the dataset, 2: the script run on its own output
    first_result,         \* what run 1 returned
    \* ---- build_vocabulary ----
    tokens,               \* nltk.word_tokenize(text)
    min_occur,
    vocab_max_tkns,       \* build_vocabulary's max_tkns
    lemmatized_tokens,
    vocab_counter,        \* Counter: <<token, count>> pairs in insertion order
    vocab_tuples,
    final_tokens,
    final_num_tokens,
    data                  \* the vocabulary as one newline-separated string

vars == <<prog, pc, source_lines, vocab_tokens, max_tkns, lemmatized_lines,
          all_tokens_in_vocab, tokens_in_vocab, refined_source_text, line_idx, run,
          first_result, tokens, min_occur, vocab_max_tkns, lemmatized_tokens, vocab_counter,
          vocab_tuples, final_tokens, final_num_tokens, data>>

prepVars == <<source_lines, vocab_tokens, max_tkns, lemmatized_lines,
              all_tokens_in_vocab, tokens_in_vocab, refined_source_text, line_idx, run,
              first_result>>

builderVars == <<tokens, min_occur, vocab_max_tkns, lemmatized_tokens, vocab_counter,
                 vocab_tuples, final_tokens, final_num_tokens, data>>

-----------------------------------------------------------------------------
(* Bounds of the model *)

\* data lines of a dataset that are not blank
MaxBody == 2
\* largest max_tkns handed to prep_data_for_tokenizer
MaxCap == 2
\* tokens of a corpus handed to build_vocabulary
MaxCorpus == 4
\* largest min_occur handed to build_vocabulary
MaxMinOccur == 2
\* largest max_tkns handed to build_vocabulary
MaxVocab == 2

-----------------------------------------------------------------------------
(* Python str operations on sequences of characters *)

\* str.lower() of one character
LowerChar(c) ==
    CASE c = "A" -> "a"
      [] c = "S" -> "s"
      [] c = "U" -> "u"
      [] c = "E" -> "e"
      [] OTHER -> c

\* str.lower()
Lower(w) == [i \in 1..Len(w) |-> LowerChar(w[i])]

\* str.endswith(suf)
EndsWith(w, suf) ==
    /\ Len(suf) <= Len(w)
    /\ SubSeq(w, Len(w) - Len(suf) + 1, Len(w)) = suf

\* `sub in s` on strings
IsSubstring(sub, s) ==
    \E k \in 0..(Len(s) - Len(sub)) : SubSeq(s, k + 1, k + Len(sub)) = sub

IsSpace(c) == c \in {" ", "\t", "\r"}

\* str.split(): the maximal runs of characters that are not white space
RECURSIVE SplitFrom(_, _, _)
SplitFrom(s, i, cur) ==
    IF i > Len(s)
    THEN IF cur = <<>> THEN <<>> ELSE <<cur>>
    ELSE IF IsSpace(s[i])
         THEN IF cur = <<>>
              THEN SplitFrom(s, i + 1, <<>>)
              ELSE <<cur>> \o SplitFrom(s, i + 1, <<>>)
         ELSE SplitFrom(s, i + 1, Append(cur, s[i]))

Split(s) == SplitFrom(s, 1, <<>>)

\* the concatenation of the strings of a sequence
RECURSIVE Concat(_)
Concat(ss) == IF ss = <<>> THEN <<>> ELSE Head(ss) \o Concat(Tail(ss))

\* " ".join(words)
RECURSIVE JoinSpace(_)
JoinSpace(ws) ==
    IF ws = <<>> THEN <<>>
    ELSE IF Len(ws) = 1 THEN Head(ws)
    ELSE Head(ws) \o <<" ">> \o JoinSpace(Tail(ws))

Range(f) == {f[i] : i \in DOMAIN f}

-----------------------------------------------------------------------------
(* nltk's WordNetLemmatizer.lemmatize(word), part of speech noun *)

\* the words of this model
w_a     == <<"a">>
w_u     == <<"u">>
w_as    == <<"a", "s">>
w_us    == <<"u", "s">>
w_ass   == <<"a", "s", "s">>
w_asses == <<"a", "s", "s", "e", "s">>
w_sea   == <<"s", "e", "a">>
w_seas  == <<"s", "e", "a", "s">>
w_US    == <<"U", "S">>
w_Seas  == <<"S", "e", "a", "s">>
w_etc   == <<"e", "t", "c">>
w_critical  == <<"c", "r", "i", "t", "i", "c", "a", "l">>
w_important == <<"i", "m", "p", "o", "r", "t", "a", "n", "t">>
w_necessary == <<"n", "e", "c", "e", "s", "s", "a", "r", "y">>

\* the noun lemmas of WordNet among the strings this model can form
WordNetNouns == {w_a, w_u, w_as, w_us, w_ass, w_sea, <<"e">>, <<"e", "s">>}

\* wordnet.MORPHOLOGICAL_SUBSTITUTIONS[NOUN]: <<ending, replacement>>
MORPHOLOGICAL_SUBSTITUTIONS ==
    << << <<"s">>, <<>> >>,
       << <<"s", "e", "s">>, <<"s">> >>,
       << <<"v", "e", "s">>, <<"f">> >>,
       << <<"x", "e", "s">>, <<"x">> >>,
       << <<"z", "e", "s">>, <<"z">> >>,
       << <<"c", "h", "e", "s">>, <<"c", "h">> >>,
       << <<"s", "h", "e", "s">>, <<"s", "h">> >>,
       << <<"m", "e", "n">>, <<"m", "a", "n">> >>,
       << <<"i", "e", "s">>, <<"y">> >> >>

\* the forms one word gives: form[:-len(old)] + new for each ending it has
RECURSIVE RulesOf(_, _)
RulesOf(form, k) ==
    IF k > Len(MORPHOLOGICAL_SUBSTITUTIONS) THEN <<>>
    ELSE LET old == MORPHOLOGICAL_SUBSTITUTIONS[k][1]
             new == MORPHOLOGICAL_SUBSTITUTIONS[k][2]
         IN  (IF EndsWith(form, old)
              THEN << SubSeq(form, 1, Len(form) - Len(old)) \o new >>
              ELSE <<>>) \o RulesOf(form, k + 1)

\* apply_rules(forms)
RECURSIVE ApplyRules(_)
ApplyRules(forms) ==
    IF forms = <<>> THEN <<>>
    ELSE RulesOf(Head(forms), 1) \o ApplyRules(Tail(forms))

\* filter_forms(forms): the forms WordNet knows, each once, in order
RECURSIVE FilterForms(_, _)
FilterForms(forms, seen) ==
    IF forms = <<>> THEN <<>>
    ELSE IF Head(forms) \in WordNetNouns /\ Head(forms) \notin seen
         THEN <<Head(forms)>> \o FilterForms(Tail(forms), seen \cup {Head(forms)})
         ELSE FilterForms(Tail(forms), seen)

\* step 3 of _morphy: keep applying the rules until a form is known
RECURSIVE MorphyLoop(_)
MorphyLoop(forms) ==
    IF forms = <<>> THEN <<>>
    ELSE LET next == ApplyRules(forms)
             results == FilterForms(next, {})
         IN  IF results # <<>> THEN results ELSE MorphyLoop(next)

\* wordnet._morphy(form, NOUN)
Morphy(form) ==
    LET forms == ApplyRules(<<form>>)
        results == FilterForms(<<form>> \o forms, {})
    IN  IF results # <<>> THEN results ELSE MorphyLoop(forms)

\* min(lemmas, key=len): the first of the shortest
MinByLen(lemmas) ==
    LET k == CHOOSE i \in DOMAIN lemmas :
                 /\ \A j \in DOMAIN lemmas : Len(lemmas[i]) <= Len(lemmas[j])
                 /\ \A j \in 1..(i - 1) : Len(lemmas[j]) > Len(lemmas[i])
    IN  lemmas[k]

\* wnl.lemmatize(word)
Lemmatize(word) ==
    LET lemmas == Morphy(word)
    IN  IF lemmas # <<>> THEN MinByLen(lemmas) ELSE word


-----------------------------------------------------------------------------
(* prep_data_for_tokenizer.py *)

\* the words line 98 keeps from the lemmatizer
LemmatizerExceptions == {w_us, <<"p", "s">>, <<"b", "s">>, w_as, <<"e", "s">>}

\* lines 95-99: one word of a line, lowercased and lemmatized
PrepNormalize(word) ==
    LET w == Lower(word)
    IN  IF w \notin LemmatizerExceptions THEN Lemmatize(w) ELSE w

\* lines 89-103: the lemmatized words of a line, joined by one space
LemmatizeLine(line) ==
    LET words_in_line == Split(line)
    IN  JoinSpace([j \in 1..Len(words_in_line) |-> PrepNormalize(words_in_line[j])])

\* lines 76-79 and 108-111 print the elements 1..5 of the list
PreviewLines == 5

\* lines 120-129: the lines concatenated with nothing between them, then split
LemmatizedTokens(lines) == Split(Concat(lines))

\* as lines 132-140, with the test against the vocabulary left out
AllTokensInVocab_NoVocab(lemmatized, vocab) == Range(lemmatized)

\* lines 132-140
AllTokensInVocab(lemmatized, vocab) == {w \in Range(lemmatized) : w \in vocab}

\* line 156: the scan of a line stops
CapTrips(kept, cap) == Len(kept) > cap

\* lines 154-159: the candidates of a line
RECURSIVE TokensInVocab(_, _, _, _)
TokensInVocab(tkns, kept, member, cap) ==
    IF tkns = <<>> \/ CapTrips(kept, cap) THEN kept
    ELSE TokensInVocab(Tail(tkns),
                       IF Head(tkns) \in member THEN Append(kept, Head(tkns)) ELSE kept,
                       member, cap)

\* line 161: the candidate is added to the line
NotYetInLine(tkn, refined_line) == ~IsSubstring(tkn, refined_line)

\* lines 160-162
RECURSIVE RefinedLine(_, _)
RefinedLine(kept, refined_line) ==
    IF kept = <<>> THEN refined_line
    ELSE RefinedLine(Tail(kept),
                     IF NotYetInLine(Head(kept), refined_line)
                     THEN refined_line \o <<" ">> \o Head(kept)
                     ELSE refined_line)

\* lines 164-168: the line without its first character
FinishedLine(refined_line) ==
    IF refined_line = <<>> THEN <<>> ELSE Tail(refined_line)

\* lines 178-180: what is left of the list
PopLastLine(refined) == SubSeq(refined, 1, Len(refined) - 1)

\* the lines of the sample datasets
SampleWords ==
    { <<>>,
      <<w_US, w_u>>,
      <<w_Seas, w_a, w_sea, w_us>>,
      <<w_asses>>,
      <<w_u, w_sea, w_us>>,
      <<w_sea>>,
      <<w_us, w_etc, w_u>> }

SampleLines == {JoinSpace(ws) : ws \in SampleWords}

HeaderLine == JoinSpace(<<w_sea, w_a>>)

\* blank lines between the header and the data lines
BlankLines == 3

RECURSIVE SeqsUpTo(_, _)
SeqsUpTo(S, n) ==
    IF n = 0 THEN {<<>>}
    ELSE LET shorter == SeqsUpTo(S, n - 1)
         IN  shorter \cup {Append(q, x) : q \in {r \in shorter : Len(r) = n - 1}, x \in S}

\* a dataset file split at its newlines; a file that ends with a newline ends
\* with an empty segment
Datasets ==
    { <<HeaderLine>> \o [k \in 1..BlankLines |-> <<>>] \o body \o trail :
        body \in SeqsUpTo(SampleLines, MaxBody), trail \in {<<>>, << <<>> >>} }

\* the vocabulary files, split
SampleVocabs ==
    { <<w_sea, w_us, w_u>>,
      <<w_ass, w_as, w_sea, w_us>>,
      <<w_u, w_etc>> }

BuilderIdle ==
    /\ tokens = <<>>
    /\ min_occur = 0
    /\ vocab_max_tkns = 0
    /\ lemmatized_tokens = <<>>
    /\ vocab_counter = <<>>
    /\ vocab_tuples = <<>>
    /\ final_tokens = <<>>
    /\ final_num_tokens = 0
    /\ data = <<>>

InitPrep ==
    /\ prog = "prep"
    /\ pc = "start"
    /\ source_lines \in Datasets
    /\ vocab_tokens \in SampleVocabs
    /\ max_tkns \in -1..MaxCap
    /\ lemmatized_lines = <<>>
    /\ all_tokens_in_vocab = {}
    /\ tokens_in_vocab = <<>>
    /\ refined_source_text = <<>>
    /\ line_idx = 0
    /\ run = 1
    /\ first_result = <<>>
    /\ BuilderIdle

\* lines 73-114: a dataset of fewer than six segments stops at the print of
\* line 79; otherwise every line is lemmatized and the header line is dropped
LemmatizeLines ==
    /\ prog = "prep"
    /\ pc = "start"
    /\ IF Len(source_lines) < PreviewLines + 1
       THEN /\ pc' = "IndexError"
            /\ UNCHANGED lemmatized_lines
       ELSE /\ pc' = "collect"
            /\ lemmatized_lines' =
                   Tail([i \in 1..Len(source_lines) |-> LemmatizeLine(source_lines[i])])
    /\ UNCHANGED <<prog, source_lines, vocab_tokens, max_tkns, all_tokens_in_vocab,
                   tokens_in_vocab, refined_source_text, line_idx, run, first_result>>
    /\ UNCHANGED builderVars

\* lines 116-147
CollectTokensInVocab ==
    /\ prog = "prep"
    /\ pc = "collect"
    /\ all_tokens_in_vocab' =
           AllTokensInVocab(LemmatizedTokens(lemmatized_lines), Range(vocab_tokens))
    /\ refined_source_text' = <<>>
    /\ line_idx' = 0
    /\ pc' = "refine"
    /\ UNCHANGED <<prog, source_lines, vocab_tokens, max_tkns, lemmatized_lines,
                   tokens_in_vocab, run, first_result>>
    /\ UNCHANGED builderVars

\* lines 149-171: one turn of the loop over the lines
RefineLine ==
    /\ prog = "prep"
    /\ pc = "refine"
    /\ line_idx < Len(lemmatized_lines)
    /\ LET line == lemmatized_lines[line_idx + 1]
           kept == TokensInVocab(Split(line), <<>>, all_tokens_in_vocab, max_tkns)
       IN  /\ tokens_in_vocab' = kept
           /\ refined_source_text' =
                  Append(refined_source_text, FinishedLine(RefinedLine(kept, <<>>)))
    /\ line_idx' = line_idx + 1
    /\ UNCHANGED <<prog, pc, source_lines, vocab_tokens, max_tkns, lemmatized_lines,
                   all_tokens_in_vocab, run, first_result>>
    /\ UNCHANGED builderVars

\* lines 173-182: the last line is dropped and the list returned
ReturnRefined ==
    /\ prog = "prep"
    /\ pc = "refine"
    /\ line_idx = Len(lemmatized_lines)
    /\ refined_source_text' = PopLastLine(refined_source_text)
    /\ first_result' = IF run = 1 THEN PopLastLine(refined_source_text) ELSE first_result
    /\ pc' = "done"
    /\ UNCHANGED <<prog, source_lines, vocab_tokens, max_tkns, lemmatized_lines,
                   all_tokens_in_vocab, tokens_in_vocab, line_idx, run>>
    /\ UNCHANGED builderVars

\* the script called on what it returned: the same header line, the returned
\* lines, a newline at the end of the file; the same vocabulary and cap
RunOnOutput ==
    /\ prog = "prep"
    /\ pc = "done"
    /\ run = 1
    /\ run' = 2
    /\ source_lines' = <<source_lines[1]>> \o first_result \o << <<>> >>
    /\ pc' = "start"
    /\ lemmatized_lines' = <<>>
    /\ all_tokens_in_vocab' = {}
    /\ tokens_in_vocab' = <<>>
    /\ refined_source_text' = <<>>
    /\ line_idx' = 0
    /\ UNCHANGED <<prog, vocab_tokens, max_tkns, first_result>>
    /\ UNCHANGED builderVars

NextPrep ==
    \/ LemmatizeLines
    \/ CollectTokensInVocab
    \/ RefineLine
    \/ ReturnRefined
    \/ RunOnOutput

SpecPrep == InitPrep /\ [][NextPrep]_vars


-----------------------------------------------------------------------------
(* vocab_builder.py *)

\* lines 58-59: one token, lowercased and lemmatized
BuilderNormalize(token) == Lemmatize(Lower(token))

\* Counter.update(elements): a new key goes last, a known key counts one more
RECURSIVE CounterUpdate(_, _)
CounterUpdate(counter, elems) ==
    IF elems = <<>> THEN counter
    ELSE LET e == Head(elems)
             known == \E k \in DOMAIN counter : counter[k][1] = e
             bumped == [k \in DOMAIN counter |->
                           IF counter[k][1] = e
                           THEN <<e, counter[k][2] + 1>>
                           ELSE counter[k]]
         IN  CounterUpdate(IF known THEN bumped ELSE Append(counter, <<e, 1>>),
                           Tail(elems))

\* line 75
tokens_to_remove_list ==
    << <<"c", "r", "u", "d", "e">>,
       <<"r", "u", "d", "e">>,
       <<"o", "f", "f", "e", "n", "s", "i", "v", "e">>,
       w_etc >>

Test_NotUnwanted(entry) == entry[1] \notin Range(tokens_to_remove_list)

\* line 83: a token of one character is removed
IsSingleChar(token) == Len(token) = 1

Test_NotSingleChar(entry) == ~IsSingleChar(entry[1])

\* as line 92, with the threshold taken one too low
LowOccurrence_OffByOne(count, threshold) == count + 1 < threshold

\* line 92: the token fails the threshold
LowOccurrence(count, threshold) == count < threshold

\* lines 91-94
RemoveLow(counter, threshold) ==
    LET Keep(entry) == ~LowOccurrence(entry[2], threshold)
    IN  SelectSeq(counter, Keep)

\* sorted(items, key=count, reverse=True): stable, so equal counts keep the
\* order of the Counter
RECURSIVE InsertByCount(_, _)
InsertByCount(sorted, entry) ==
    IF sorted = <<>> THEN <<entry>>
    ELSE IF Head(sorted)[2] >= entry[2]
         THEN <<Head(sorted)>> \o InsertByCount(Tail(sorted), entry)
         ELSE <<entry>> \o sorted

RECURSIVE SortByCount(_, _)
SortByCount(items, sorted) ==
    IF items = <<>> THEN sorted
    ELSE SortByCount(Tail(items), InsertByCount(sorted, Head(items)))

Min2(a, b) == IF a < b THEN a ELSE b

\* as most_common(), with the n left out: every item, sorted
MostCommon_NoLimit(counter, n) == SortByCount(counter, <<>>)

\* Counter.most_common(n) = heapq.nlargest(n, items, key=count): the first n of
\* the sorted items, none when n <= 0
MostCommon(counter, n) ==
    IF n <= 0 THEN <<>>
    ELSE SubSeq(SortByCount(counter, <<>>), 1, Min2(n, Len(counter)))

\* lines 115-123, in the order of the three tests
ImportantTokens == <<w_critical, w_important, w_necessary>>

\* lines 115-123: a token that is not yet in the list is appended
RECURSIVE AddImportant(_, _)
AddImportant(final, important) ==
    IF important = <<>> THEN final
    ELSE AddImportant(IF Head(important) \notin Range(final)
                      THEN Append(final, Head(important))
                      ELSE final,
                      Tail(important))

\* "\n".join(final_tokens)
RECURSIVE JoinNewline(_)
JoinNewline(ws) ==
    IF ws = <<>> THEN <<>>
    ELSE IF Len(ws) = 1 THEN Head(ws)
    ELSE Head(ws) \o <<"\n">> \o JoinNewline(Tail(ws))

\* the words of the sample corpora
CorpusWords == {w_US, w_seas, w_sea, w_ass, w_critical, w_etc}

PrepIdle ==
    /\ source_lines = <<>>
    /\ vocab_tokens = <<>>
    /\ max_tkns = 0
    /\ lemmatized_lines = <<>>
    /\ all_tokens_in_vocab = {}
    /\ tokens_in_vocab = <<>>
    /\ refined_source_text = <<>>
    /\ line_idx = 0
    /\ run = 0
    /\ first_result = <<>>

InitBuilder ==
    /\ prog = "vocab_builder"
    /\ pc = "start"
    /\ tokens \in SeqsUpTo(CorpusWords, MaxCorpus)
    /\ min_occur \in -1..MaxMinOccur
    /\ vocab_max_tkns \in -1..MaxVocab
    /\ lemmatized_tokens = <<>>
    /\ vocab_counter = <<>>
    /\ vocab_tuples = <<>>
    /\ final_tokens = <<>>
    /\ final_num_tokens = 0
    /\ data = <<>>
    /\ PrepIdle

\* lines 55-60
LemmatizeTokens ==
    /\ prog = "vocab_builder"
    /\ pc = "start"
    /\ lemmatized_tokens' = [i \in 1..Len(tokens) |-> BuilderNormalize(tokens[i])]
    /\ pc' = "count"
    /\ UNCHANGED <<prog, tokens, min_occur, vocab_max_tkns, vocab_counter, vocab_tuples,
                   final_tokens, final_num_tokens, data>>
    /\ UNCHANGED prepVars

\* lines 62-70
CountTokens ==
    /\ prog = "vocab_builder"
    /\ pc = "count"
    /\ vocab_counter' = CounterUpdate(<<>>, lemmatized_tokens)
    /\ pc' = "unwanted"
    /\ UNCHANGED <<prog, tokens, min_occur, vocab_max_tkns, lemmatized_tokens,
                   vocab_tuples, final_tokens, final_num_tokens, data>>
    /\ UNCHANGED prepVars

\* lines 72-78
RemoveUnwanted ==
    /\ prog = "vocab_builder"
    /\ pc = "unwanted"
    /\ vocab_counter' = SelectSeq(vocab_counter, Test_NotUnwanted)
    /\ pc' = "single"
    /\ UNCHANGED <<prog, tokens, min_occur, vocab_max_tkns, lemmatized_tokens,
                   vocab_tuples, final_tokens, final_num_tokens, data>>
    /\ UNCHANGED prepVars

\* lines 80-86
RemoveSingleChar ==
    /\ prog = "vocab_builder"
    /\ pc = "single"
    /\ vocab_counter' = SelectSeq(vocab_counter, Test_NotSingleChar)
    /\ pc' = "low"
    /\ UNCHANGED <<prog, tokens, min_occur, vocab_max_tkns, lemmatized_tokens,
                   vocab_tuples, final_tokens, final_num_tokens, data>>
    /\ UNCHANGED prepVars

\* lines 88-94
RemoveLowOccurrence ==
    /\ prog = "vocab_builder"
    /\ pc = "low"
    /\ vocab_counter' = RemoveLow(vocab_counter, min_occur)
    /\ pc' = "common"
    /\ UNCHANGED <<prog, tokens, min_occur, vocab_max_tkns, lemmatized_tokens,
                   vocab_tuples, final_tokens, final_num_tokens, data>>
    /\ UNCHANGED prepVars

\* lines 96-110
SelectMostCommon ==
    /\ prog = "vocab_builder"
    /\ pc = "common"
    /\ vocab_tuples' = MostCommon(vocab_counter, vocab_max_tkns)
    /\ final_tokens' = [k \in 1..Len(vocab_tuples') |-> vocab_tuples'[k][1]]
    /\ pc' = "important"
    /\ UNCHANGED <<prog, tokens, min_occur, vocab_max_tkns, lemmatized_tokens,
                   vocab_counter, final_num_tokens, data>>
    /\ UNCHANGED prepVars

\* lines 112-135
ReturnVocabulary ==
    /\ prog = "vocab_builder"
    /\ pc = "important"
    /\ final_tokens' = AddImportant(final_tokens, ImportantTokens)
    /\ final_num_tokens' = Len(final_tokens')
    /\ data' = JoinNewline(final_tokens')
    /\ pc' = "done"
    /\ UNCHANGED <<prog, tokens, min_occur, vocab_max_tkns, lemmatized_tokens,
                   vocab_counter, vocab_tuples>>
    /\ UNCHANGED prepVars

NextBuilder ==
    \/ LemmatizeTokens
    \/ CountTokens
    \/ RemoveUnwanted
    \/ RemoveSingleChar
    \/ RemoveLowOccurrence
    \/ SelectMostCommon
    \/ ReturnVocabulary

SpecBuilder == InitBuilder /\ [][NextBuilder]_vars

-----------------------------------------------------------------------------
(* either script *)

Init == InitPrep \/ InitBuilder

Next == NextPrep \/ NextBuilder

Spec == Init /\ [][Next]_vars


-----------------------------------------------------------------------------
(* Properties *)

\* the tokens of a sequence, each at its first place only
RECURSIVE FirstOccurrences(_, _)
FirstOccurrences(ts, seen) ==
    IF ts = <<>> THEN <<>>
    ELSE IF Head(ts) \in seen
         THEN FirstOccurrences(Tail(ts), seen)
         ELSE <<Head(ts)>> \o FirstOccurrences(Tail(ts), seen \cup {Head(ts)})

HasRepeat(ts) == \E j, k \in DOMAIN ts : j # k /\ ts[j] = ts[k]

Returned == prog = "prep" /\ pc = "done"

\* how often a normalized token occurs in the corpus
Occurrences(t) == Cardinality({i \in DOMAIN lemmatized_tokens : lemmatized_tokens[i] = t})

\* the frequency-selected tokens, in selection order
Selected == [k \in 1..Len(vocab_tuples) |-> vocab_tuples[k][1]]

Test_NotSelected(t) == t \notin Range(Selected)

Built == prog = "vocab_builder" /\ pc = "done"

\* C1: with a positive max_tkns, every line prep_data_for_tokenizer returns holds
\* at most max_tkns tokens.
C1_StrictCap ==
    (Returned /\ max_tkns > 0) =>
        \A i \in DOMAIN refined_source_text :
            Len(Split(refined_source_text[i])) <= max_tkns

\* C2: every token of every filtered line is a member of the vocabulary set
\* loaded from the vocabulary file, and no token occurs twice in a line.
C2_InVocabNoRepeat ==
    prog = "prep" =>
        \A i \in DOMAIN refined_source_text :
            LET ts == Split(refined_source_text[i])
            IN  /\ \A k \in DOMAIN ts : ts[k] \in Range(vocab_tokens)
                /\ ~HasRepeat(ts)

\* C2 witness: a returned line of two tokens or more, filtered from a line that
\* repeats a token and holds a token outside the vocabulary.
C2_Witness ==
    /\ Returned
    /\ \E i \in DOMAIN refined_source_text :
           LET ts == Split(lemmatized_lines[i])
           IN  /\ Len(Split(refined_source_text[i])) >= 2
               /\ HasRepeat(ts)
               /\ \E k \in DOMAIN ts : ts[k] \notin Range(vocab_tokens)

\* C3: every token of the built vocabulary that is not one of "critical",
\* "important", "necessary" occurs at least min_occur times, normalized, in the
\* corpus.
C3_MinOccurrence ==
    Built =>
        \A k \in DOMAIN final_tokens :
            final_tokens[k] \notin Range(ImportantTokens)
                => Occurrences(final_tokens[k]) >= min_occur

\* C3 witness: a vocabulary built with a threshold of two that holds a counted
\* token while another token of the corpus, of two letters or more and not
\* unwanted, was counted once only.
C3_Witness ==
    /\ Built
    /\ min_occur >= 2
    /\ \E k \in DOMAIN final_tokens : final_tokens[k] \notin Range(ImportantTokens)
    /\ \E i \in DOMAIN lemmatized_tokens :
           /\ Occurrences(lemmatized_tokens[i]) = 1
           /\ Len(lemmatized_tokens[i]) > 1
           /\ lemmatized_tokens[i] \notin Range(tokens_to_remove_list)

\* C4: with max_tkns > 0 the vocabulary holds at most max_tkns tokens plus the
\* mandatory tokens that were not frequency-selected; these follow the selected
\* tokens, in the order of their declaration; the returned count is the length
\* of the list.
C4_SizeAndOrder ==
    (Built /\ vocab_max_tkns > 0) =>
        /\ Len(Selected) <= vocab_max_tkns
        /\ Len(final_tokens) <=
               vocab_max_tkns
                 + Cardinality({m \in Range(ImportantTokens) : m \notin Range(Selected)})
        /\ final_tokens = Selected \o SelectSeq(ImportantTokens, Test_NotSelected)
        /\ final_num_tokens = Len(final_tokens)

\* C4 witness: a vocabulary built from more surviving tokens than max_tkns, with
\* "critical" among the selected ones.
C4_Witness ==
    /\ Built
    /\ vocab_max_tkns > 0
    /\ Len(vocab_counter) > vocab_max_tkns
    /\ w_critical \in Range(Selected)
    /\ Len(final_tokens) = vocab_max_tkns + 2

\* C5: filtering is idempotent: the script run on the lines it returned, with the
\* same vocabulary and the same positive cap, returns the same lines.
C5_Idempotent ==
    (Returned /\ run = 2 /\ max_tkns > 0) => refined_source_text = first_result

\* C6: the last element of the output is removed only when it is the empty
\* string; a dataset that does not end with an empty segment keeps the filtered
\* form of its last line.
C6_PopOnlyBlank ==
    (Returned /\ run = 1) =>
        LET last_line == FinishedLine(RefinedLine(tokens_in_vocab, <<>>))
        IN  /\ Len(refined_source_text) < Len(lemmatized_lines) => last_line = <<>>
            /\ (source_lines[Len(source_lines)] # <<>> /\ last_line # <<>>) =>
                   /\ Len(refined_source_text) = Len(lemmatized_lines)
                   /\ refined_source_text[Len(refined_source_text)] = last_line

\* C7: build_vocabulary normalizes every raw token as prep_data_for_tokenizer
\* does, the exception set included.
C7_SameNormalization ==
    (prog = "vocab_builder" /\ pc # "start") =>
        \A i \in DOMAIN tokens : lemmatized_tokens[i] = PrepNormalize(tokens[i])

\* C8: a negative min_occur or a max_tkns <= 0 given to build_vocabulary, and a
\* max_tkns <= 0 given to prep_data_for_tokenizer, are rejected before any
\* processing.
C8_RejectsInvalid ==
    /\ (prog = "vocab_builder" /\ (min_occur < 0 \/ vocab_max_tkns <= 0))
           => pc \in {"start", "ConfigurationError"}
    /\ (prog = "prep" /\ max_tkns <= 0)
           => pc \in {"start", "ConfigurationError"}

\* C9: the candidates of a line are the tokens of that line that are members of
\* the vocabulary, scanned until the cap check trips: they depend on the line,
\* the vocabulary and the (positive) cap only.
C9_LineVocabCapOnly ==
    (prog = "prep" /\ pc \in {"refine", "done"} /\ line_idx > 0 /\ max_tkns > 0) =>
        tokens_in_vocab =
            TokensInVocab(Split(lemmatized_lines[line_idx]), <<>>,
                          Range(vocab_tokens), max_tkns)

\* C10: the output line is the candidates with later exact repeats removed, in
\* first-occurrence order, joined by single spaces (the cap being positive).
C10_ExactDedup ==
    (prog = "prep" /\ pc = "refine" /\ line_idx > 0 /\ max_tkns > 0) =>
        refined_source_text[line_idx] = JoinSpace(FirstOccurrences(tokens_in_vocab, {}))

=============================================================================
